---- MODULE Spec2Model ----
(***************************************************************************)
(* The workout playback engine of src/workout_player.py (WorkoutPlayer),   *)
(* with the Workout container of src/models.py, the session table of       *)
(* Database and seconds_to_mmss of src/utils.py.                           *)
(*                                                                         *)
(* Threads.  The Tk main loop runs one handler at a time (button command,  *)
(* WM_DELETE_WINDOW protocol, `after` callbacks); a handler is one atomic  *)
(* step, except that load_exercise is cut before its call of               *)
(* start_video_playback, so that a worker can observe the stop flag that   *)
(* load_exercise raises and start_video_playback lowers again.  Every      *)
(* video_loop thread is a process of its own, cut at each access of a      *)
(* shared attribute; `x += d` is a load and a store.                       *)
(*                                                                         *)
(* Time.  Elapsed time is counted in ticks of one frame delay, 1/fps       *)
(* second: a frame adds 1 tick, a rest second adds fps ticks, int(t) of a  *)
(* time of t ticks is t \div fps.  The frame rates modelled are powers of  *)
(* two, for which the program's float sums are exact.                      *)
(***************************************************************************)
EXTENDS Integers, Sequences, FiniteSets, Bags, TLC

\* ------------------------------------------------------------------ bounds
MaxDuration == 2
MaxListLen == 2
MaxWorkers == 2
MaxSeconds == 600
MaxSlots == 11
MaxCloses == 2

\* --------------------------------------------------------------- constants
NumSlots == 10
RestSeconds == 10
FpsSet == {1, 2}
VideoPaths == {"ok.mp4", "missing.mp4"}

VARIABLES workout, video_fps, self, main_pc, threads, after_calls, db, obs, call

vars == <<workout, video_fps, self, main_pc, threads, after_calls, db, obs, call>>

\* ------------------------------------------------------------- data model
None == [none |-> TRUE]

Exercise(video_path, duration) == [video_path |-> video_path, duration |-> duration]

ExerciseSet == {Exercise(p, d) : p \in VideoPaths, d \in 1..MaxDuration}

\* [None] * n of Python: the empty list when n <= 0
NoneList(n) == [i \in 1..n |-> None]

Workout(exercises) == [exercises |-> exercises \o NoneList(NumSlots - Len(exercises))]

\* the lists given to Workout: an empty first slot, then up to MaxListLen exercises
ExerciseLists == {<<None>> \o l : l \in UNION {[1..n -> ExerciseSet] : n \in 0..MaxListLen}}

\* cv2.VideoCapture(path).isOpened()
isOpened(video_path) == video_path \in {"ok.mp4", "corrupt.mp4"}

\* the frames that read() can decode before it reports the end of the stream
FrameCount(video_path) == IF video_path = "ok.mp4" THEN 1 ELSE 0

\* int(t) of a time of t ticks: truncation towards zero
int(ticks) == IF ticks >= 0 THEN ticks \div video_fps ELSE -((-ticks) \div video_fps)

Min(S) == CHOOSE x \in S : \A y \in S : x <= y

\* ------------------------------------------------------------ the database
NoRow == [duration_seconds |-> -1, completed |-> FALSE, exists |-> FALSE]

\* db.fails: the database file cannot be written, sqlite3 raises; w.raised is
\* the exception on its way up the call stack
add_workout_session(w, duration, completed) ==
    IF w.db.fails
    THEN [w EXCEPT !.raised = TRUE]
    ELSE [w EXCEPT !.db.row = [duration_seconds |-> duration, completed |-> completed,
                               exists |-> TRUE],
                   !.db.adds = Append(@, [duration |-> duration, completed |-> completed]),
                   !.self.session_id = Len(w.db.adds) + 1]

update_workout_session(w, session_id, duration, completed) ==
    IF w.db.fails
    THEN [w EXCEPT !.raised = TRUE]
    ELSE [w EXCEPT !.db.row = IF w.db.row.exists /\ session_id = 1
                                THEN [duration_seconds |-> duration,
                                      completed |-> completed, exists |-> TRUE]
                                ELSE @,
                   !.db.updates = Append(@, [duration |-> duration,
                                             completed |-> completed])]

\* -------------------------------------------------------------- Tk widgets
\* Misc.after: registers the callback with the interpreter
after(w, callback) == [w EXCEPT !.after_calls = @ (+) SetToBag({callback})]

\* BaseWidget.destroy: the window goes, and with it the commands it registered
destroy(w) == [w EXCEPT !.self.window = "destroyed", !.after_calls = EmptyBag]

\* what the observer notes when a terminal handler is entered
NoSnapshot == [taken |-> FALSE, window |-> "new", current_exercise_index |-> 0,
               current_time |-> 0, total_elapsed |-> 0]

Snapshot(s) == [taken |-> TRUE, window |-> s.window,
                current_exercise_index |-> s.current_exercise_index,
                current_time |-> s.current_time,
                total_elapsed |-> s.total_elapsed]

DeadThread == [pc |-> "dead", duration |-> 0, reg |-> 0]

\* ------------------------------------------------------- the main thread
start_video_playback(w) ==
    LET free == {t \in 1..MaxWorkers : w.threads[t].pc = "dead"}
    IN  IF free = {}
        THEN [w EXCEPT !.overflow = TRUE]
        ELSE [w EXCEPT !.self.stop_video_thread = FALSE,
                       !.self.video_thread = Min(free),
                       !.threads[Min(free)] = [pc |-> "start", duration |-> 0, reg |-> 0]]

finish_workout(w, completed) ==
    LET w1 == [w EXCEPT !.obs.at_finish = IF @ = NoSnapshot THEN Snapshot(w.self) ELSE @,
                        !.self.stop_video_thread = TRUE,
                        !.self.video_capture = "None",
                        !.self.pos = 0]
        w2 == IF w1.self.session_id # 0
              THEN update_workout_session(w1, w1.self.session_id,
                                          int(w1.self.total_elapsed), completed)
              ELSE w1
    IN  IF w2.raised THEN w2 ELSE destroy(w2)

load_exercise(w, index) ==
    IF index >= Len(w.self.exercises)
    THEN finish_workout(w, TRUE)
    ELSE LET exercise == w.self.exercises[index + 1]
             w1 == [w EXCEPT !.self.current_exercise_index = index,
                             !.self.current_time = 0,
                             !.self.stop_video_thread = TRUE,
                             !.self.video_capture =
                                 IF isOpened(exercise.video_path) THEN "open"
                                 ELSE "not_opened",
                             !.self.pos = 0]
         IN  IF ~isOpened(exercise.video_path)
             THEN after(w1, <<"next_exercise">>)
             ELSE LET w2 == [w1 EXCEPT !.self.fps = video_fps]
                  IN  IF w2.self.is_playing /\ ~w2.self.is_paused
                      THEN [w2 EXCEPT !.main_pc = "start_video_playback"]
                      ELSE w2

next_exercise(w) == load_exercise(w, w.self.current_exercise_index + 1)

start_workout(w) ==
    LET w1 == add_workout_session(w, 0, FALSE)
    IN  IF w1.raised THEN w1 ELSE load_exercise(w1, 0)

\* mutant: no check for an empty exercise list
init_nocheck(w, wk) ==
    start_workout([w EXCEPT !.self.exercises = SelectSeq(wk.exercises, LAMBDA ex : ex # None),
                            !.self.window = "open"])

init(w, wk) ==
    LET exercises == SelectSeq(wk.exercises, LAMBDA ex : ex # None)
        w1 == [w EXCEPT !.self.exercises = exercises]
    IN  IF exercises = <<>>
        THEN destroy(w1)
        ELSE start_workout([w1 EXCEPT !.self.window = "open"])

\* mutant: the countdown does not look at the pause flag
rest_countdown_nopause(w, seconds) ==
    IF w.self.window # "open"
    THEN w
    ELSE IF seconds > 0 /\ w.self.is_resting
    THEN after([w EXCEPT !.self.total_elapsed = @ + video_fps],
               <<"rest_countdown", seconds - 1>>)
    ELSE IF w.self.is_resting
    THEN next_exercise([w EXCEPT !.self.is_resting = FALSE])
    ELSE w

\* mutant: the rest seconds are not added to the total
rest_countdown_nototal(w, seconds) ==
    IF w.self.window # "open"
    THEN w
    ELSE IF seconds > 0 /\ w.self.is_resting /\ ~w.self.is_paused
    THEN after(w, <<"rest_countdown", seconds - 1>>)
    ELSE IF w.self.is_resting /\ ~w.self.is_paused
    THEN next_exercise([w EXCEPT !.self.is_resting = FALSE])
    ELSE w

rest_countdown(w, seconds) ==
    IF w.self.window # "open"
    THEN w
    ELSE IF seconds > 0 /\ w.self.is_resting /\ ~w.self.is_paused
    THEN after([w EXCEPT !.self.total_elapsed = @ + video_fps],
               <<"rest_countdown", seconds - 1>>)
    ELSE IF w.self.is_resting /\ ~w.self.is_paused
    THEN next_exercise([w EXCEPT !.self.is_resting = FALSE])
    ELSE w

show_rest_period(w) ==
    LET w1 == [w EXCEPT !.self.is_resting = TRUE,
                        !.obs.rest_periods = @ + 1,
                        !.obs.at_rest = IF @ = NoSnapshot THEN Snapshot(w.self) ELSE @]
    IN  IF w1.self.window # "open"
        THEN w1
        ELSE rest_countdown(w1, RestSeconds)

on_exercise_complete(w) ==
    LET w1 == [w EXCEPT !.self.stop_video_thread = TRUE,
                        !.self.video_capture = "None",
                        !.self.pos = 0]
    IN  IF w1.self.current_exercise_index + 1 < Len(w1.self.exercises)
        THEN show_rest_period(w1)
        ELSE finish_workout(w1, TRUE)

\* mutant: the first start does not start the worker
toggle_play_pause_nostart(w) ==
    IF ~w.self.is_playing
    THEN [w EXCEPT !.self.is_playing = TRUE]
    ELSE [w EXCEPT !.self.is_paused = ~@, !.obs.ever_paused = TRUE]

toggle_play_pause(w) ==
    IF ~w.self.is_playing
    THEN start_video_playback([w EXCEPT !.self.is_playing = TRUE])
    ELSE LET w1 == [w EXCEPT !.self.is_paused = ~@,
                             !.obs.ever_paused = TRUE]
         IN  IF w1.self.is_paused
             THEN w1
             ELSE IF w1.self.is_resting
             THEN w1
             ELSE IF w1.self.video_thread = 0
                     \/ w1.threads[w1.self.video_thread].pc = "dead"
             THEN start_video_playback(w1)
             ELSE w1

\* mutant: the close does not raise the stop flag
on_close_nostop(w) ==
    LET w1 == [w EXCEPT !.obs.at_close = Snapshot(w.self),
                        !.self.is_resting = FALSE,
                        !.self.video_capture = "None",
                        !.self.pos = 0]
        w2 == IF w1.self.session_id # 0
              THEN update_workout_session(w1, w1.self.session_id,
                                          int(w1.self.total_elapsed), FALSE)
              ELSE w1
    IN  destroy([w2 EXCEPT !.raised = FALSE])

on_close(w) ==
    LET w1 == [w EXCEPT !.obs.at_close = Snapshot(w.self),
                        !.self.stop_video_thread = TRUE,
                        !.self.is_resting = FALSE,
                        !.self.video_capture = "None",
                        !.self.pos = 0]
        w2 == IF w1.self.session_id # 0
              THEN update_workout_session(w1, w1.self.session_id,
                                          int(w1.self.total_elapsed), FALSE)
              ELSE w1
    IN  destroy([w2 EXCEPT !.raised = FALSE])

\* ------------------------------------------------------------------ state
World ==
    [self |-> self, main_pc |-> main_pc, threads |-> threads,
     after_calls |-> after_calls, db |-> db, obs |-> obs, overflow |-> FALSE,
     raised |-> FALSE]

Becomes(w) ==
    /\ ~w.overflow
    /\ self' = w.self
    /\ main_pc' = w.main_pc
    /\ threads' = w.threads
    /\ after_calls' = w.after_calls
    /\ db' = w.db
    /\ obs' = w.obs
    /\ UNCHANGED <<call, workout, video_fps>>

\* the player before its constructor runs
InitPlayer ==
    /\ video_fps \in FpsSet
    /\ self = [window |-> "new",
               is_playing |-> FALSE,
               is_paused |-> FALSE,
               is_resting |-> FALSE,
               current_exercise_index |-> 0,
               current_time |-> 0,
               total_elapsed |-> 0,
               session_id |-> 0,
               exercises |-> <<>>,
               video_capture |-> "None",
               pos |-> 0,
               video_thread |-> 0,
               stop_video_thread |-> FALSE,
               fps |-> 0]
    /\ main_pc = "mainloop"
    /\ threads = [t \in 1..MaxWorkers |-> DeadThread]
    /\ after_calls = EmptyBag
    /\ db = [row |-> NoRow, adds |-> <<>>, updates |-> <<>>, fails |-> FALSE]
    /\ obs = [rest_periods |-> 0, ever_paused |-> FALSE,
              at_close |-> NoSnapshot, at_finish |-> NoSnapshot,
              at_rest |-> NoSnapshot]

\* no call of a function outside the player is being followed
NoCall == [fn |-> "none", args |-> <<>>, returned |-> FALSE, ret |-> <<>>]

Init ==
    /\ workout \in {Workout(l) : l \in ExerciseLists}
    /\ InitPlayer
    /\ call = NoCall

\* sessions of MaxListLen + 1 exercises of one second each, the first and the
\* last with a video that does not open
LongLists == {l \in [1..(MaxListLen + 1) -> {Exercise(p, 1) : p \in VideoPaths}] :
                 ~isOpened(l[1].video_path) /\ ~isOpened(l[MaxListLen + 1].video_path)}

InitLong ==
    /\ workout \in {Workout(l) : l \in LongLists}
    /\ InitPlayer
    /\ call = NoCall

\* ------------------------------------------------- main-thread actions
Construct ==
    /\ self.window = "new"
    /\ Becomes(init(World, workout))

PressPlayPause ==
    /\ main_pc = "mainloop"
    /\ self.window = "open"
    /\ Becomes(toggle_play_pause(World))

CloseWindow ==
    /\ main_pc = "mainloop"
    /\ self.window = "open"
    /\ Becomes(on_close(World))

Taken(callback) == [World EXCEPT !.after_calls = @ (-) SetToBag({callback})]

FireOnExerciseComplete ==
    /\ main_pc = "mainloop"
    /\ BagIn(<<"on_exercise_complete">>, after_calls)
    /\ Becomes(on_exercise_complete(Taken(<<"on_exercise_complete">>)))

FireRestCountdown ==
    /\ main_pc = "mainloop"
    /\ \E seconds \in 0..(RestSeconds - 1) :
          /\ BagIn(<<"rest_countdown", seconds>>, after_calls)
          /\ Becomes(rest_countdown(Taken(<<"rest_countdown", seconds>>), seconds))

FireNextExercise ==
    /\ main_pc = "mainloop"
    /\ BagIn(<<"next_exercise">>, after_calls)
    /\ Becomes(next_exercise(Taken(<<"next_exercise">>)))

LoadExerciseStartPlayback ==
    /\ main_pc = "start_video_playback"
    /\ Becomes(start_video_playback([World EXCEPT !.main_pc = "mainloop"]))

\* ---------------------------------------------------- video_loop threads
ThreadStart(t) ==
    /\ threads[t].pc = "start"
    /\ threads' = [threads EXCEPT ![t] =
          IF self.fps = 0
          THEN DeadThread
          ELSE [pc |-> "loop",
                duration |-> self.exercises[self.current_exercise_index + 1].duration,
                reg |-> 0]]
    /\ UNCHANGED <<call, workout, video_fps, self, main_pc, after_calls, db, obs>>

ThreadLoop(t) ==
    /\ threads[t].pc = "loop"
    /\ threads' = [threads EXCEPT ![t].pc =
          IF self.stop_video_thread
             \/ ~(self.current_time < threads[t].duration * video_fps)
          THEN "post"
          ELSE IF self.is_paused THEN "loop" ELSE "read"]
    /\ UNCHANGED <<call, workout, video_fps, self, main_pc, after_calls, db, obs>>

\* the video the open capture was created for
CapturePath == self.exercises[self.current_exercise_index + 1].video_path

\* ret, frame = self.video_capture.read()
ThreadRead(t) ==
    /\ threads[t].pc = "read"
    /\ \/ /\ self.video_capture = "None"
          /\ threads' = [threads EXCEPT ![t] = DeadThread]
          /\ UNCHANGED self
       \/ /\ self.video_capture = "not_opened"
          /\ threads' = [threads EXCEPT ![t].pc = "set"]
          /\ UNCHANGED self
       \/ /\ self.video_capture = "open"
          /\ LET ret == self.pos < FrameCount(CapturePath)
             IN  /\ threads' = [threads EXCEPT ![t].pc =
                                    IF ret THEN "current_time" ELSE "set"]
                 /\ self' = [self EXCEPT !.pos = IF ret THEN @ + 1 ELSE @]
    /\ UNCHANGED <<call, workout, video_fps, main_pc, after_calls, db, obs>>

\* mutant: the end of the stream is not followed by a seek to frame 0
ThreadSet_noseek(t) ==
    /\ threads[t].pc = "set"
    /\ \/ /\ self.video_capture = "None"
          /\ threads' = [threads EXCEPT ![t] = DeadThread]
          /\ UNCHANGED self
       \/ /\ self.video_capture # "None"
          /\ threads' = [threads EXCEPT ![t].pc = "loop"]
          /\ UNCHANGED self
    /\ UNCHANGED <<call, workout, video_fps, main_pc, after_calls, db, obs>>

\* not ret: self.video_capture.set(cv2.CAP_PROP_POS_FRAMES, 0); continue
ThreadSet(t) ==
    /\ threads[t].pc = "set"
    /\ \/ /\ self.video_capture = "None"
          /\ threads' = [threads EXCEPT ![t] = DeadThread]
          /\ UNCHANGED self
       \/ /\ self.video_capture # "None"
          /\ threads' = [threads EXCEPT ![t].pc = "loop"]
          /\ self' = [self EXCEPT !.pos = 0]
    /\ UNCHANGED <<call, workout, video_fps, main_pc, after_calls, db, obs>>

\* display_frame is a Tk call: it waits until the main loop serves it
ThreadLoadCurrentTime(t) ==
    /\ threads[t].pc = "current_time"
    /\ main_pc = "mainloop"
    /\ threads' = [threads EXCEPT ![t].pc = "current_time=",
                                  ![t].reg = self.current_time]
    /\ UNCHANGED <<call, workout, video_fps, self, main_pc, after_calls, db, obs>>

ThreadStoreCurrentTime(t) ==
    /\ threads[t].pc = "current_time="
    /\ self' = [self EXCEPT !.current_time = threads[t].reg + 1]
    /\ threads' = [threads EXCEPT ![t].pc = "total_elapsed=",
                                  ![t].reg = self.total_elapsed]
    /\ UNCHANGED <<call, workout, video_fps, main_pc, after_calls, db, obs>>

ThreadStoreTotalElapsed(t) ==
    /\ threads[t].pc = "total_elapsed="
    /\ self' = [self EXCEPT !.total_elapsed = threads[t].reg + 1]
    /\ threads' = [threads EXCEPT ![t].pc = "loop", ![t].reg = 0]
    /\ UNCHANGED <<call, workout, video_fps, main_pc, after_calls, db, obs>>

ThreadPostLoop(t) ==
    /\ threads[t].pc = "post"
    /\ threads' = [threads EXCEPT ![t] =
          IF self.stop_video_thread THEN DeadThread
          ELSE [@ EXCEPT !.pc = "after", !.duration = 0]]
    /\ UNCHANGED <<call, workout, video_fps, self, main_pc, after_calls, db, obs>>

ThreadAfter(t) ==
    /\ threads[t].pc = "after"
    /\ main_pc = "mainloop"
    /\ BagCardinality(after_calls) < MaxWorkers
    /\ after_calls' = after_calls (+) SetToBag({<<"on_exercise_complete">>})
    /\ threads' = [threads EXCEPT ![t] = DeadThread]
    /\ UNCHANGED <<call, workout, video_fps, self, main_pc, db, obs>>

Thread(t) ==
    \/ ThreadStart(t)
    \/ ThreadLoop(t)
    \/ ThreadRead(t)
    \/ ThreadSet(t)
    \/ ThreadLoadCurrentTime(t)
    \/ ThreadStoreCurrentTime(t)
    \/ ThreadStoreTotalElapsed(t)
    \/ ThreadPostLoop(t)
    \/ ThreadAfter(t)

Next ==
    \/ Construct
    \/ PressPlayPause
    \/ CloseWindow
    \/ FireOnExerciseComplete
    \/ FireRestCountdown
    \/ FireNextExercise
    \/ LoadExerciseStartPlayback
    \/ \E t \in 1..MaxWorkers : Thread(t)

Spec == Init /\ [][Next]_vars

SpecLong == InitLong /\ [][Next]_vars

\* sessions of MaxListLen exercises of one second each that end with a video
\* which opens but has no frame that decodes
DecodeLists == {l \in [1..MaxListLen -> {Exercise(p, 1) : p \in VideoPaths \cup {"corrupt.mp4"}}] :
                   l[MaxListLen].video_path = "corrupt.mp4"}

InitDecode ==
    /\ workout \in {Workout(l) : l \in DecodeLists}
    /\ InitPlayer
    /\ call = NoCall

\* every started thread keeps running, and the main loop serves the callbacks
\* that are due; the user is free to do nothing
Fairness ==
    /\ \A t \in 1..MaxWorkers : WF_vars(Thread(t))
    /\ WF_vars(Construct)
    /\ WF_vars(FireOnExerciseComplete)
    /\ WF_vars(FireRestCountdown)
    /\ WF_vars(FireNextExercise)
    /\ WF_vars(LoadExerciseStartPlayback)

SpecDecode == InitDecode /\ [][Next]_vars /\ Fairness

\* sessions of MaxListLen exercises of one second each
ShortLists == [1..MaxListLen -> {Exercise(p, 1) : p \in VideoPaths}]

InitDbFail ==
    /\ workout \in {Workout(l) : l \in ShortLists}
    /\ InitPlayer
    /\ call = NoCall

\* from some moment on every write to the database file raises
DatabaseBreaks ==
    /\ ~db.fails
    /\ db' = [db EXCEPT !.fails = TRUE]
    /\ UNCHANGED <<call, workout, video_fps, self, main_pc, threads, after_calls, obs>>

NextDbFail == Next \/ DatabaseBreaks

SpecDbFail == InitDbFail /\ [][NextDbFail]_vars

\* on_close run again on a player that was closed or has finished
CloseAgain ==
    /\ main_pc = "mainloop"
    /\ self.window = "destroyed"
    /\ self.exercises # <<>>
    /\ Len(db.updates) < MaxCloses
    /\ Becomes(on_close(World))

NextReclose == Next \/ CloseAgain

SpecReclose == Init /\ [][NextReclose]_vars

\* ------------------------------------------------------ the timer texts
\* A text is the sequence of its characters.
Digits == <<"0", "1", "2", "3", "4", "5", "6", "7", "8", "9">>

\* str(n) of Python, as the format "{n}" writes an int
RECURSIVE str(_)
str(n) ==
    IF n < 0 THEN <<"-">> \o str(-n)
    ELSE IF n < 10 THEN <<Digits[n + 1]>>
    ELSE str(n \div 10) \o <<Digits[(n % 10) + 1]>>

\* the format "{n:02d}": zeros after the sign up to a width of two
format_02d(n) ==
    LET text == str(n)
    IN  IF Len(text) >= 2 THEN text
        ELSE IF n < 0 THEN <<"-", "0">> \o Tail(text)
        ELSE <<"0">> \o text

\* mutant: the seconds are written without padding
seconds_to_mmss_nopad(seconds) ==
    LET minutes == seconds \div 60
        secs == seconds % 60
    IN  str(minutes) \o <<":">> \o str(secs)

seconds_to_mmss(seconds) ==
    LET minutes == seconds \div 60
        secs == seconds % 60
    IN  str(minutes) \o <<":">> \o format_02d(secs)

\* the text update_timers gives the exercise timer label
timer_text(duration, current_time) ==
    LET remaining == duration * video_fps - current_time
    IN  seconds_to_mmss(int(remaining))

InitFormat ==
    /\ workout = Workout(<<>>)
    /\ InitPlayer
    /\ call \in {[NoCall EXCEPT !.fn = "seconds_to_mmss", !.args = <<seconds>>] :
                     seconds \in 0..MaxSeconds}
           \cup {[NoCall EXCEPT !.fn = "update_timers", !.args = <<90, elapsed>>] :
                     elapsed \in 0..90}
           \cup {[NoCall EXCEPT !.fn = "update_timers", !.args = <<MaxSeconds, elapsed>>] :
                     elapsed \in 0..MaxSeconds}

CallSecondsToMmss ==
    /\ call.fn = "seconds_to_mmss" /\ ~call.returned
    /\ call' = [call EXCEPT !.returned = TRUE, !.ret = seconds_to_mmss(call.args[1])]
    /\ UNCHANGED <<workout, video_fps, self, main_pc, threads, after_calls, db, obs>>

\* update_timers with current_time at a whole number of seconds
CallUpdateTimers ==
    /\ call.fn = "update_timers" /\ ~call.returned
    /\ call' = [call EXCEPT !.returned = TRUE,
                            !.ret = timer_text(call.args[1], call.args[2] * video_fps)]
    /\ UNCHANGED <<workout, video_fps, self, main_pc, threads, after_calls, db, obs>>

NextFormat == CallSecondsToMmss \/ CallUpdateTimers

SpecFormat == InitFormat /\ [][NextFormat]_vars

\* ------------------------------------------------- building a Workout
\* Workout(): exercises is None
Workout_default == [exercises |-> NoneList(NumSlots)]

\* Exercise.from_dict
Exercise_from_dict(data) == Exercise(data.video_path, data.duration)

\* Workout.from_dict: data is the list stored under "exercises"
from_dict(data) ==
    Workout([i \in 1..Len(data) |->
                IF data[i] # None THEN Exercise_from_dict(data[i]) ELSE None])

\* the lists handed over: up to MaxSlots entries, each empty or an exercise
SlotLists == UNION {[1..n -> {None, Exercise("ok.mp4", 1)}] : n \in 0..MaxSlots}

InitWorkout ==
    /\ workout = Workout(<<>>)
    /\ InitPlayer
    /\ call \in {[NoCall EXCEPT !.fn = "Workout"]}
           \cup {[NoCall EXCEPT !.fn = "Workout", !.args = <<l>>] : l \in SlotLists}
           \cup {[NoCall EXCEPT !.fn = "from_dict", !.args = <<l>>] : l \in SlotLists}

CallWorkout ==
    /\ call.fn = "Workout" /\ ~call.returned
    /\ call' = [call EXCEPT !.returned = TRUE,
                            !.ret = IF call.args = <<>> THEN Workout_default.exercises
                                    ELSE Workout(call.args[1]).exercises]
    /\ UNCHANGED <<workout, video_fps, self, main_pc, threads, after_calls, db, obs>>

CallFromDict ==
    /\ call.fn = "from_dict" /\ ~call.returned
    /\ call' = [call EXCEPT !.returned = TRUE, !.ret = from_dict(call.args[1]).exercises]
    /\ UNCHANGED <<workout, video_fps, self, main_pc, threads, after_calls, db, obs>>

NextWorkout == CallWorkout \/ CallFromDict

SpecWorkout == InitWorkout /\ [][NextWorkout]_vars

\* ------------------------------------------------------------ vocabulary
Active(wk) == SelectSeq(wk.exercises, LAMBDA ex : ex # None)

Alive == {t \in 1..MaxWorkers : threads[t].pc # "dead"}

CaptureOpen(s) == s.video_capture = "open"

\* the step of toggle_play_pause that takes its "first start" branch
FirstStart == ~self.is_playing /\ self'.is_playing

AddedOnce == db.adds = <<[duration |-> 0, completed |-> FALSE]>>

\* Running(0) as the first start leaves it: one fresh worker, exercise 0 loaded
\* and open, flags down
Running0(s, th) ==
    /\ s.current_exercise_index = 0
    /\ CaptureOpen(s)
    /\ ~s.is_resting /\ ~s.is_paused /\ ~s.stop_video_thread
    /\ \E t \in 1..MaxWorkers :
          /\ th[t].pc = "start"
          /\ s.video_thread = t
          /\ \A u \in 1..MaxWorkers \ {t} : th[u].pc = "dead"

\* ----------------------------------------------------------------- C1
\* C1 (as stated): for every workout with a non-empty slot the first start
\* intent leads to Running(0), a worker playing active_exercises[0], and
\* add_workout_session is called exactly once, with (0, false).
C1_Original ==
    /\ [][FirstStart => Running0(self', threads')]_vars
    /\ [](self.window # "new" /\ Active(workout) # <<>> => AddedOnce)

\* C1 (amended): the same, for workouts whose first active exercise has a
\* video that opens; the session record is added exactly once, with
\* (0, false), for every workout with a non-empty slot.
C1_FirstStart ==
    /\ [][FirstStart /\ isOpened(Active(workout)[1].video_path)
            => Running0(self', threads')]_vars
    /\ [](self.window # "new" /\ Active(workout) # <<>> => AddedOnce)

C1_Witness ==
    /\ self.is_playing
    /\ self.current_exercise_index = 0
    /\ AddedOnce
    /\ \E t \in Alive : /\ threads[t].pc = "read"
                         /\ threads[t].duration = Active(workout)[1].duration

\* ----------------------------------------------------------------- C2
\* C2: a workout whose 10 slots are all empty: the constructor adds and
\* updates no session record, opens no video, starts no worker, leaves the
\* playback state as initialised, and the window is gone at once.
C2_EmptyWorkout ==
    self.window # "new" /\ Active(workout) = <<>> =>
        /\ db.adds = <<>> /\ db.updates = <<>> /\ ~db.row.exists
        /\ self.video_capture = "None"
        /\ Alive = {} /\ self.video_thread = 0
        /\ after_calls = EmptyBag
        /\ ~self.is_playing /\ ~self.is_paused /\ ~self.is_resting
        /\ self.current_exercise_index = 0
        /\ self.current_time = 0 /\ self.total_elapsed = 0
        /\ self.session_id = 0
        /\ self.window = "destroyed"

C2_Witness ==
    /\ self.window = "destroyed"
    /\ Len(workout.exercises) = NumSlots
    /\ \A i \in 1..NumSlots : workout.exercises[i] = None

\* ------------------------------------------------------- terminal writes
Update(ticks, completed) == [duration |-> int(ticks), completed |-> completed]

Row(ticks, completed) ==
    [duration_seconds |-> int(ticks), completed |-> completed, exists |-> TRUE]

LastIndex == Len(self.exercises) - 1

DurationTicks(index) == self.exercises[index + 1].duration * video_fps

\* the last segment had run its full duration when the snapshot was taken
LastSegmentDone(snap) ==
    /\ snap.current_exercise_index = LastIndex
    /\ snap.current_time >= DurationTicks(LastIndex)

\* ----------------------------------------------------------------- C3
\* C3: a close processed before the last segment has completed leaves exactly
\* one terminal update on the record: completed = false, duration_seconds =
\* int(total_elapsed) as it was when on_close ran.
C3_CloseWritesOnce ==
    obs.at_close.taken /\ ~LastSegmentDone(obs.at_close) =>
        /\ db.updates = <<Update(obs.at_close.total_elapsed, FALSE)>>
        /\ db.row = Row(obs.at_close.total_elapsed, FALSE)

\* ----------------------------------------------------------------- C4
\* C4: when the last segment completes with the window still open, the record
\* gets exactly one terminal update, completed = true with the final
\* int(total_elapsed), and it keeps that value ever after.
C4_FinishWritesOnce ==
    /\ obs.at_finish.taken
    /\ obs.at_finish.window = "open"
    /\ LastSegmentDone(obs.at_finish)
    => /\ db.updates = <<Update(obs.at_finish.total_elapsed, TRUE)>>
       /\ db.row = Row(obs.at_finish.total_elapsed, TRUE)

\* ----------------------------------------------------------------- C5
\* C5: however a close and a terminal transition interleave, the record gets
\* exactly one terminal update; completed = true is never written after
\* completed = false, and a committed completed = true stays.
C5_OneTerminalWrite ==
    /\ Len(db.updates) <= 1
    /\ self.window = "destroyed" /\ self.exercises # <<>> => Len(db.updates) = 1
    /\ \A i, j \in 1..Len(db.updates) :
          i < j => db.updates[i].completed = db.updates[j].completed

\* ----------------------------------------------------------------- C6
Paused == self.is_paused /\ self'.is_paused

\* C6 (as stated): from the pause to the matching resume neither current_time
\* nor total_elapsed changes.
C6_Original ==
    [][Paused => /\ self'.current_time = self.current_time
                 /\ self'.total_elapsed = self.total_elapsed]_vars

\* a worker finishes the frame it had read: the store of line 229 or of line 230
FinishesFrame(t) ==
    \/ /\ threads[t].pc = "current_time=" /\ threads'[t].pc = "total_elapsed="
       /\ self'.current_time = threads[t].reg + 1
       /\ self'.total_elapsed = self.total_elapsed
    \/ /\ threads[t].pc = "total_elapsed=" /\ threads'[t].pc = "loop"
       /\ self'.total_elapsed = threads[t].reg + 1
       /\ self'.current_time = self.current_time

\* C6 (amended): while is_paused stays set no worker begins a frame and the
\* rest countdown adds nothing; current_time and total_elapsed change only
\* by a worker finishing the one frame it had already read when the pause
\* was set.
C6_PausedFreeze ==
    [][Paused =>
          /\ \A t \in 1..MaxWorkers :
                threads[t].pc \in {"start", "loop", "dead"}
                    => threads'[t].pc \notin {"read", "current_time"}
          /\ \/ /\ self'.current_time = self.current_time
                /\ self'.total_elapsed = self.total_elapsed
             \/ \E t \in 1..MaxWorkers : FinishesFrame(t)]_vars

C6_Witness ==
    /\ self.is_paused
    /\ ~self.stop_video_thread
    /\ \E t \in 1..MaxWorkers :
          threads[t].pc = "total_elapsed=" /\ self.current_time > 0

\* ----------------------------------------------------------------- C7
RestPending == \E seconds \in 0..(RestSeconds - 1) :
                  BagIn(<<"rest_countdown", seconds>>, after_calls)

\* C7: a rest period that is neither paused nor closed is always on its way
\* to the next exercise: a countdown tick is pending.
C7_RestGoesOn ==
    self.is_resting /\ ~self.is_paused /\ self.window = "open" => RestPending

\* ----------------------------------------------------------------- C8
AllVideosOpen == \A i \in 1..Len(self.exercises) : isOpened(self.exercises[i].video_path)

Finished == obs.at_finish.taken /\ ~obs.at_close.taken

\* C8: a session of N exercises whose videos all open and that finishes
\* without a close has entered exactly N - 1 rest periods.
C8_RestPeriods ==
    Finished /\ AllVideosOpen => obs.rest_periods = Len(self.exercises) - 1

\* ----------------------------------------------------------------- C9
\* C9: total_elapsed never decreases.
C9_Monotonic == [][self'.total_elapsed >= self.total_elapsed]_vars

\* ---------------------------------------------------------------- C10
RECURSIVE SumDurations(_)
SumDurations(exercises) ==
    IF exercises = <<>> THEN 0
    ELSE Head(exercises).duration + SumDurations(Tail(exercises))

BeginsFrame(t) == threads[t].pc \in {"start", "loop"} /\ threads'[t].pc = "read"

\* a worker calls display_frame and goes on to the time updates
DisplaysFrame(t) == threads[t].pc = "current_time" /\ threads'[t].pc = "current_time="

Closed == obs.at_close.taken

\* C11 (as stated): once on_close has run, no worker calls display_frame or
\* update_timers, no rest countdown tick runs, and current_time and
\* total_elapsed do not change again.
C11_Original ==
    [][Closed => /\ \A t \in 1..MaxWorkers : ~DisplaysFrame(t)
                 /\ ~RestPending
                 /\ self'.current_time = self.current_time
                 /\ self'.total_elapsed = self.total_elapsed]_vars

\* C11 (amended): once on_close has run, no worker begins a new iteration and
\* no rest countdown tick runs; current_time and total_elapsed change only by
\* a worker finishing the iteration it was in when the stop flag was set.
C11_NoCallbacksAfterClose ==
    [][Closed => /\ \A t \in 1..MaxWorkers : ~BeginsFrame(t)
                 /\ ~RestPending
                 /\ \/ /\ self'.current_time = self.current_time
                       /\ self'.total_elapsed = self.total_elapsed
                    \/ \E t \in 1..MaxWorkers : FinishesFrame(t)]_vars

C11_Witness ==
    /\ Closed
    /\ self.total_elapsed = obs.at_close.total_elapsed + 1
    /\ \A t \in 1..MaxWorkers : threads[t].pc = "dead"

\* ---------------------------------------------------------------- C12
\* load_exercise found that the video of the current exercise does not open
OpenFailed == self.video_capture = "not_opened" /\ self.window = "open"

SkipPending == BagIn(<<"next_exercise">>, after_calls)

\* the step that runs the skip scheduled by the failed load
Skips == main_pc = "mainloop" /\ SkipPending /\ FireNextExercise

\* C12: from a failed open of exercise i to the load of exercise i + 1 no
\* rest period is entered and no time is added; the skip is pending all the
\* while, and when it runs it loads exercise i + 1, or finishes the session
\* with completed = true when i is the last index.
C12_FailedOpenSkips ==
    /\ [][OpenFailed =>
              /\ obs.rest_periods' = obs.rest_periods
              /\ self'.total_elapsed = self.total_elapsed
              /\ self'.current_time = self.current_time]_vars
    /\ [](OpenFailed => SkipPending)
    /\ [][OpenFailed /\ Skips =>
              \/ /\ self.current_exercise_index < LastIndex
                 /\ self'.current_exercise_index = self.current_exercise_index + 1
                 /\ self'.window = "open"
                 /\ self'.video_capture # "None"
              \/ /\ self.current_exercise_index = LastIndex
                 /\ self'.window = "destroyed"
                 /\ db'.updates = Append(db.updates, Update(self.total_elapsed, TRUE))]_vars

\* ---------------------------------------------------------------- C13
\* the capture is open on a video that has frames
Decodable == self.video_capture = "open" /\ FrameCount(CapturePath) > 0

\* C13: when read() reports the end of the stream the worker seeks to frame 0
\* and goes back to the loop test, and the next read of the rewound stream
\* gives a frame; a worker leaves its loop only from the loop test, with the
\* stop flag set or current_time >= duration.
C13_LoopsVideo ==
    [][\A t \in 1..MaxWorkers :
          /\ threads[t].pc = "read" /\ threads'[t].pc # "read" /\ Decodable
                => IF self.pos < FrameCount(CapturePath)
                   THEN threads'[t].pc = "current_time"
                   ELSE threads'[t].pc = "set"
          /\ threads[t].pc = "set" /\ threads'[t].pc # "set" /\ Decodable
                => threads'[t].pc = "loop" /\ self'.pos = 0
          /\ threads[t].pc # "post" /\ threads'[t].pc = "post"
                => /\ threads[t].pc = "loop"
                   /\ \/ self.stop_video_thread
                      \/ self.current_time >= threads[t].duration * video_fps]_vars

\* a second frame is read after the one-frame stream has ended once
C13_Witness ==
    /\ \E t \in 1..MaxWorkers :
          /\ threads[t].pc = "current_time"
          /\ \A u \in 1..MaxWorkers \ {t} : threads[u].pc = "dead"
    /\ Decodable /\ self.pos = 1
    /\ self.current_time = 1
    /\ ~self.stop_video_thread /\ ~obs.ever_paused

\* ---------------------------------------------------------------- C14
\* the number a text of decimal digits stands for
RECURSIVE DecimalValue(_)
DecimalValue(text) ==
    IF text = <<>> THEN 0
    ELSE 10 * DecimalValue(SubSeq(text, 1, Len(text) - 1))
         + (CHOOSE d \in 0..9 : Digits[d + 1] = text[Len(text)])

IsDigits(text) == \A i \in 1..Len(text) : \E d \in 0..9 : Digits[d + 1] = text[i]

\* text is "M:SS" for s seconds: M = s div 60 without padding, SS = s mod 60
\* in two digits
IsMSS(text, s) ==
    LET n == Len(text)
    IN  /\ n >= 4
        /\ text[n - 2] = ":"
        /\ IsDigits(SubSeq(text, 1, n - 3)) /\ IsDigits(SubSeq(text, n - 1, n))
        /\ DecimalValue(SubSeq(text, n - 1, n)) = s % 60
        /\ DecimalValue(SubSeq(text, 1, n - 3)) = s \div 60
        /\ n - 3 > 1 => text[1] # "0"

\* C14: seconds_to_mmss(s) is "M:SS" for every whole s >= 0, and the
\* exercise timer shows it for duration minus elapsed: "0:07" for (90, 83),
\* "10:00" for (600, 0).
C14_TimerText ==
    call.returned =>
        /\ call.fn = "seconds_to_mmss" => IsMSS(call.ret, call.args[1])
        /\ call.fn = "update_timers" => IsMSS(call.ret, call.args[1] - call.args[2])
        /\ call.fn = "update_timers" /\ call.args = <<90, 83>>
              => call.ret = <<"0", ":", "0", "7">>
        /\ call.fn = "update_timers" /\ call.args = <<600, 0>>
              => call.ret = <<"1", "0", ":", "0", "0">>

C14_Witness ==
    /\ call.returned
    /\ call.fn = "update_timers" /\ call.args = <<90, 83>>
    /\ call.ret = <<"0", ":", "0", "7">>

\* ---------------------------------------------------------------- C15
\* C15: every way of building a Workout gives exactly NumSlots slots, with
\* the entries handed over, empty ones included, at their positions.
C15_TenSlots ==
    call.returned /\ call.fn \in {"Workout", "from_dict"} =>
        /\ Len(call.ret) = NumSlots
        /\ call.args # <<>> =>
              \A i \in 1..Len(call.args[1]) :
                  i <= NumSlots => call.ret[i] = call.args[1][i]

\* ---------------------------------------------------------------- C16
\* C16: an on_close that runs after the session had its terminal write
\* writes nothing, or writes the duration and the completed value of that
\* first terminal write again.
C16_CloseAgainSame ==
    [][CloseAgain /\ db.updates # <<>> =>
          \/ db'.updates = db.updates
          \/ db'.updates = Append(db.updates, db.updates[1])]_vars

\* ---------------------------------------------------------------- C17
\* a segment is running on a video that opened but gives no frame
UndecodableRunning ==
    /\ self.window = "open"
    /\ self.video_capture = "open" /\ FrameCount(CapturePath) = 0
    /\ self.is_playing /\ ~self.is_paused /\ ~self.is_resting
    /\ Alive # {}

\* C17: a running segment whose video fails to decode, neither paused nor
\* closed, eventually ends: the exercise is skipped and the session goes on.
C17_DecodeFailureSkips == UndecodableRunning ~> ~UndecodableRunning

\* ---------------------------------------------------------------- C18
\* C18: with a database whose writes fail, a finish or a close still stops
\* the worker, releases the video and destroys the window, and a player whose
\* add_workout_session failed still starts exercise 0 on the first start.
C18_WriteFailureHarmless ==
    /\ [](obs.at_finish.taken \/ obs.at_close.taken =>
             /\ self.window = "destroyed"
             /\ self.video_capture = "None")
    /\ [][FirstStart /\ isOpened(Active(workout)[1].video_path)
            => Running0(self', threads')]_vars

\* ---------------------------------------------------------------- C19
\* C19: as long as start has not been pressed no session record exists, also
\* after the player was closed without a start.
C19_NoRecordWhileIdle ==
    ~self.is_playing => db.adds = <<>> /\ ~db.row.exists

\* ---------------------------------------------------------------- C20
\* the session has had its stop from on_close or finish_workout
Stopped == obs.at_close.taken \/ obs.at_finish.taken

\* a worker registers on_exercise_complete with the main loop (line 237)
SchedulesComplete(t) == threads[t].pc = "after" /\ threads'[t].pc = "dead"

\* C20: a worker begins an iteration only with the stop flag and the paused
\* flag both down, so a flag that is set lets it read at most the frame it
\* was about to read; after the stop of on_close or finish_workout no worker
\* schedules on_exercise_complete.
C20_WorkerPollsFlags ==
    [][\A t \in 1..MaxWorkers :
          /\ BeginsFrame(t) => ~self.stop_video_thread /\ ~self.is_paused
          /\ Stopped => ~SchedulesComplete(t)]_vars

\* ---------------------------------------------------------------- C21
\* a worker calls read() (line 215) or set() (line 219) on self.video_capture
ReadsOrSeeks(t) == threads[t].pc \in {"read", "set"} /\ threads'[t] # threads[t]

\* C21: a worker never calls read or set on a capture that the main thread
\* has released and replaced by None.
C21_HandleOwnedByWorker ==
    [][\A t \in 1..MaxWorkers : ReadsOrSeeks(t) => self.video_capture # "None"]_vars

\* ---------------------------------------------------------------- C22
\* a worker is inside its while loop: past the loop test, at a frame
InLoopBody(t) == threads[t].pc \in {"read", "set", "current_time", "current_time=",
                                    "total_elapsed="}

\* the rest_countdown callbacks waiting in the main loop
RestChains ==
    LET pending == {seconds \in 0..(RestSeconds - 1) :
                       BagIn(<<"rest_countdown", seconds>>, after_calls)}
    IN  IF pending = {} THEN 0
        ELSE BagCardinality([cb \in {<<"rest_countdown", seconds>> : seconds \in pending}
                                |-> CopiesIn(cb, after_calls)])

\* C22: while is_resting is set no worker is inside its playback loop, and at
\* most one rest countdown chain is pending.
C22_RestExcludesWorker ==
    /\ self.is_resting => \A t \in 1..MaxWorkers : ~InLoopBody(t)
    /\ RestChains <= 1

\* ---------------------------------------------------------------- C23
\* the countdown callback that ends a rest period: rest_countdown(0) with
\* is_resting set and is_paused down (lines 376-379)
RestEnds ==
    /\ main_pc = "mainloop"
    /\ BagIn(<<"rest_countdown", 0>>, after_calls)
    /\ self.is_resting /\ ~self.is_paused
    /\ self.window = "open" /\ self'.window = "open" /\ ~self'.is_resting

\* C23: a rest period that was never paused ends with total_elapsed exactly
\* RestSeconds above its value at the start of the rest; the step that ends it
\* clears is_resting, loads exercise i + 1 with current_time 0, opens its
\* video and goes on to start a worker, which the next step does.
C23_RestLastsTen ==
    /\ [][~obs.ever_paused /\ obs.rest_periods = 1 /\ RestEnds =>
              /\ self.total_elapsed = obs.at_rest.total_elapsed + RestSeconds * video_fps
              /\ self'.total_elapsed = self.total_elapsed
              /\ self'.current_exercise_index = obs.at_rest.current_exercise_index + 1
              /\ self'.current_time = 0
              /\ isOpened(self.exercises[self'.current_exercise_index + 1].video_path)
                    => /\ self'.video_capture = "open"
                       /\ main_pc' = "start_video_playback"]_vars
    /\ [][main_pc = "start_video_playback" /\ main_pc' = "mainloop" =>
              /\ ~self'.stop_video_thread
              /\ self'.video_thread # 0
              /\ threads'[self'.video_thread].pc = "start"
              /\ threads[self'.video_thread].pc = "dead"]_vars

\* ---------------------------------------------------------------- C24
\* the main loop runs the completion callback a worker has scheduled
Completes == BagIn(<<"on_exercise_complete">>, after_calls) /\ FireOnExerciseComplete

\* C24: a segment is ended, by on_exercise_complete, only with current_time >=
\* the duration of the current exercise; the handler releases the video and
\* enters the rest period when the exercise is not the last one, and finishes
\* the session without a rest period when it is; no video is open during a
\* rest period.
C24_SegmentEnds ==
    /\ [][Completes /\ self.window = "open" =>
              /\ self.current_time >= DurationTicks(self.current_exercise_index)
              /\ self'.video_capture = "None"
              /\ IF self.current_exercise_index < LastIndex
                 THEN /\ self'.is_resting /\ self'.window = "open"
                      /\ obs'.rest_periods = obs.rest_periods + 1
                      /\ self'.current_exercise_index = self.current_exercise_index
                 ELSE /\ self'.window = "destroyed" /\ ~self'.is_resting
                      /\ obs'.rest_periods = obs.rest_periods
                      /\ db'.updates = Append(db.updates, Update(self.total_elapsed, TRUE))]_vars
    /\ [](self.is_resting => self.video_capture = "None")

\* ---------------------------------------------------------------- C25
\* a worker's read() gives a frame (line 215)
ReadsFrame(t) == threads[t].pc = "read" /\ threads'[t].pc = "current_time"

\* C25: while is_paused stays set and the window is not closed by the user,
\* no worker reads a frame, the exercise index, the rest flag and the loaded
\* video stay as they are, no completion and no skip runs, and the session
\* does not finish.
C25_PauseKeepsState ==
    [][Paused /\ obs'.at_close = obs.at_close =>
          /\ \A t \in 1..MaxWorkers : ~ReadsFrame(t)
          /\ self'.current_exercise_index = self.current_exercise_index
          /\ self'.is_resting = self.is_resting
          /\ self'.video_capture = self.video_capture
          /\ self'.window = self.window
          /\ obs'.at_finish = obs.at_finish]_vars

\* ---------------------------------------------------------------- C26
\* a worker is in its while loop, at the loop test or at a frame
InLoop(t) == threads[t].pc = "loop" \/ InLoopBody(t)

\* the resume branch of toggle_play_pause: is_paused goes down
Resumes == self.is_playing /\ self.is_paused /\ ~self'.is_paused /\ self'.window = "open"

\* C26: at most one worker is in its playback loop in every state, and a
\* resume starts no worker while one is alive.
C26_OneWorker ==
    /\ [](Cardinality({t \in 1..MaxWorkers : InLoop(t)}) <= 1)
    /\ [][Resumes /\ Alive # {} => threads' = threads]_vars

\* ---------------------------------------------------------------- C27
\* start_video_playback creates thread t (lines 199-200)
StartsWorker(t) == threads[t].pc = "dead" /\ threads'[t].pc = "start"

\* C27: a worker is started only with the video of the current exercise open.
C27_StartNeedsOpenVideo ==
    [][\A t \in 1..MaxWorkers : StartsWorker(t) => self'.video_capture = "open"]_vars

\* ---------------------------------------------------------------- C28
\* the current exercise is left: the index moves on, or the session finishes
LeavesExercise ==
    \/ self'.current_exercise_index # self.current_exercise_index
    \/ ~obs.at_finish.taken /\ obs'.at_finish.taken

\* C28: the index changes by +1 only; on_exercise_complete runs at most once
\* for a segment, so never during the rest period or after the finish that
\* an earlier run of it began; and an exercise whose video opened is left,
\* with the window open, only when current_time has reached its duration.
C28_InOrderNoneSkipped ==
    /\ [][self'.current_exercise_index # self.current_exercise_index
            => self'.current_exercise_index = self.current_exercise_index + 1]_vars
    /\ [][Completes => ~self.is_resting /\ ~obs.at_finish.taken]_vars
    /\ [][LeavesExercise /\ self.window = "open" /\ isOpened(CapturePath)
            => self.current_time >= DurationTicks(self.current_exercise_index)]_vars

\* ---------------------------------------------------------------- C29
\* C29: as long as start has not been pressed finish_workout does not run: no
\* update with completed = true is written and the window of a player with
\* exercises is destroyed by a close only.
C29_NoFinishBeforeStart ==
    ~self.is_playing =>
        /\ ~obs.at_finish.taken
        /\ \A i \in 1..Len(db.updates) : ~db.updates[i].completed
        /\ self.window = "destroyed" /\ self.exercises # <<>> => obs.at_close.taken

\* ---------------------------------------------------------------- C30
\* remaining of update_timers (line 282), in ticks
Remaining == DurationTicks(self.current_exercise_index) - self.current_time

\* C30: current_time never exceeds the duration of the current exercise, so
\* the remaining time shown by the exercise timer is never negative.
C30_RemainingNotNegative ==
    self.exercises # <<>> => Remaining >= 0 /\ int(Remaining) >= 0

====
